---------------------------- MODULE Spec2Model ----------------------------
(***************************************************************************)
(* Retrieval pipeline of AgriChat: FAISS shortlist + quantum-fidelity      *)
(* rerank (backend/src/query_pipeline.py, quantum_rerank.py, utils.py),    *)
(* and the chat route add_message of backend/server.py.                    *)
(*                                                                         *)
(* Numbers.  The code computes in IEEE floats; the model computes exactly. *)
(*  - reduced features, mins, maxs: integers.                              *)
(*  - an angle is a record [num, den, exp] standing for                    *)
(*        (num / den) * 10^exp * pi        (den > 0, exp >= 0),            *)
(*    so that the 1e-12 denominator of reduced_to_angles needs no number   *)
(*    beyond 32 bits.                                                      *)
(*  - a complex amplitude is a pair <<re, im>> in units of 1/AmpUnit.      *)
(*  - a fidelity score is an integer in units of 1/AmpUnit^4, so the       *)
(*    score 1.0 is the integer One.                                        *)
(* Python arrays and lists are functions on 0..n-1 (zero-based).           *)
(***************************************************************************)
EXTENDS Integers, Sequences, FiniteSets, TLC

VARIABLES
    index,             \* query_pipeline.index: the vectors stored in the FAISS index
    texts,             \* query_pipeline.texts
    doc_statevectors,  \* query_pipeline.doc_statevectors
    pca,               \* query_pipeline.pca: [mean, components]
    mins,              \* query_pipeline.mins
    maxs,              \* query_pipeline.maxs
    argsort_kind,      \* how this build's np.argsort orders equal keys
    call,              \* the last full_pipeline call: [query, top_k], or NoCall
    outcome,           \* what that call ended in: [status, value]
    first_call,        \* the first full_pipeline call made since load
    first_outcome,     \* and what it ended in
    angle_in,          \* the last reduced_to_angles call: [z, mins, maxs]
    angle_out,         \* and what it ended in: [status, ret, mins, maxs]
    circuit_in,        \* the angles of the last build_circuit call
    circuit_out,       \* and the circuit it returned: [num_qubits, data]
    fidelity_in,       \* the last pair of fidelity calls: [a, b]
    fidelity_out,      \* fidelity(a, b) and fidelity(b, a): [ab, ba]
    sessions,          \* table sessions: id -> [user_id]
    messages,          \* table messages, in insertion order: [session_id, sender]
    inserted_by,       \* for each row of messages, the user whose call inserted it
    request,           \* the last add_message call: [user, session_id, message, audio, image]
    response           \* and what it ended in: [status, session_id, new_session]

circuit_vars == <<circuit_in, circuit_out>>
fidelity_vars == <<fidelity_in, fidelity_out>>
server_vars == <<sessions, messages, inserted_by, request, response>>

vars == <<index, texts, doc_statevectors, pca, mins, maxs, argsort_kind,
          call, outcome, first_call, first_outcome, angle_in, angle_out,
          circuit_vars, fidelity_vars, server_vars>>

corpus_vars == <<index, texts, doc_statevectors, pca, mins, maxs, argsort_kind>>

(***************************************************************************)
(* Program constants and model bounds                                      *)
(***************************************************************************)
NumQubits == 6
NumCx == 5
top_n == 20
EpsExp == 12

AmpUnit == 5
MaxSmallCorpus == 3
SmallTopK == 2
AngleLen == 2
NumUsers == 2
MaxSessions == 2
MaxMessages == 4

One == AmpUnit * AmpUnit * AmpUnit * AmpUnit

RECURSIVE Pow2(_)
Pow2(n) == IF n = 0 THEN 1 ELSE 2 * Pow2(n - 1)


(***************************************************************************)
(* Python containers                                                       *)
(***************************************************************************)
Size(a) == Cardinality(DOMAIN a)

EmptyList == [i \in {} |-> 0]

\* a[i] of a Python list or a numpy axis of length n: negative i counts from
\* the end, anything outside -n .. n-1 raises IndexError.
PyIndexOK(n, i) == (-n <= i) /\ (i < n)
PyIndex(n, i) == IF i < 0 THEN i + n ELSE i

(***************************************************************************)
(* utils.reduced_to_angles                                                 *)
(***************************************************************************)
\* denom = (maxs - mins): a fresh array, value m * 10^(-e)
Subtract(mxs, mns) == [i \in DOMAIN mxs |-> [m |-> mxs[i] - mns[i], e |-> 0]]

\* denom[denom == 0] = 1e-12
SubstituteEps(denom) ==
    [i \in DOMAIN denom |-> IF denom[i].m = 0 THEN [m |-> 1, e |-> EpsExp] ELSE denom[i]]

\* a variant that divides z itself, without subtracting mins
Scale_unshifted(z, mns, denom) ==
    [i \in DOMAIN z |-> [num |-> z[i], den |-> denom[i].m, exp |-> denom[i].e]]

\* scaled = (z - mins) / denom ; scaled * np.pi   (the angle in units of pi)
Scale(z, mns, denom) ==
    [i \in DOMAIN z |-> [num |-> z[i] - mns[i], den |-> denom[i].m, exp |-> denom[i].e]]

\* a variant that subtracts in place (maxs -= mins) and so writes the
\* differences into the caller's maxs
reduced_to_angles_in_place(z, mns, mxs) ==
    LET denom == SubstituteEps(Subtract(mxs, mns))
    IN  [status |-> "ok", ret |-> Scale(z, mns, denom), mins |-> mns,
         maxs |-> [i \in DOMAIN mxs |-> mxs[i] - mns[i]]]

\* The call returns the angles; mins and maxs are the caller's arrays as the
\* call leaves them (denom is a new array, so both are left alone).
reduced_to_angles(z, mns, mxs) ==
    LET denom == SubstituteEps(Subtract(mxs, mns))
    IN  [status |-> "ok", ret |-> Scale(z, mns, denom), mins |-> mns, maxs |-> mxs]

RECURSIVE DivPow10(_, _)
DivPow10(n, e) == IF e = 0 THEN n ELSE DivPow10(n \div 10, e - 1)

\* comparisons of an angle (den > 0) with 0 and with pi
AngleIsZero(a) == a.num = 0
AngleGeqZero(a) == IF a.den > 0 THEN a.num >= 0 ELSE a.num <= 0
AngleLeqPi(a) ==
    IF a.den > 0 THEN a.num <= DivPow10(a.den, a.exp)
                 ELSE (-a.num) <= DivPow10(-a.den, a.exp)
AngleIsPi(a) == a.exp = 0 /\ a.num = a.den
AngleInRange(a) == AngleGeqZero(a) /\ AngleLeqPi(a)


(***************************************************************************)
(* quantum_rerank.build_circuit / get_statevector                          *)
(***************************************************************************)
\* for i, a in enumerate(angles): qc.ry(float(a), i)
RyGates(angles) ==
    [j \in 1 .. Size(angles) |->
        [op |-> "ry", qubits |-> <<j - 1>>, params |-> <<angles[j - 1]>>]]

\* the entangling chain written from the last pair down to the first
CxGates_descending ==
    [j \in 1 .. NumCx |->
        [op |-> "cx", qubits |-> <<NumCx - j, NumCx - j + 1>>, params |-> <<>>]]

\* for i in range(5): qc.cx(i, i + 1)
CxGates ==
    [j \in 1 .. NumCx |-> [op |-> "cx", qubits |-> <<j - 1, j>>, params |-> <<>>]]

\* qc.save_statevector(): a simulator instruction, not a gate
SaveInstruction == [op |-> "save_statevector", qubits |-> <<>>, params |-> <<>>]

build_circuit(angles) ==
    [num_qubits |-> NumQubits, data |-> (RyGates(angles) \o CxGates) \o <<SaveInstruction>>]

\* complex numbers as pairs
CAdd(a, b) == <<a[1] + b[1], a[2] + b[2]>>
CScale(k, a) == <<k * a[1], k * a[2]>>
CConjMul(a, b) == <<a[1] * b[1] + a[2] * b[2], a[1] * b[2] - a[2] * b[1]>>
CZero == <<0, 0>>

Bit(x, q) == (x \div Pow2(q)) % 2

\* The statevector simulator is exact for the angles the model feeds it:
\* integer multiples of pi.  theta = m*pi gives RY = [[c, -s], [s, c]] with
\* c = cos(m*pi/2), s = sin(m*pi/2), which depend on m mod 4 only; a multiple
\* of 10^EpsExp * pi is a multiple of 4*pi.
IsPiMultiple(a) == a.den # 0 /\ a.num % (IF a.den > 0 THEN a.den ELSE -a.den) = 0
AngleMod4(a) == IF a.exp >= 2 THEN 0 ELSE (a.num \div a.den) % 4
RyCos(a) == CASE AngleMod4(a) = 0 -> 1 [] AngleMod4(a) = 2 -> -1 [] OTHER -> 0
RySin(a) == CASE AngleMod4(a) = 1 -> 1 [] AngleMod4(a) = 3 -> -1 [] OTHER -> 0

\* A statevector is kept as the function from the basis indices with a
\* nonzero amplitude to that amplitude; every other amplitude is 0.
Amp(st, x) == IF x \in DOMAIN st THEN st[x] ELSE CZero
Flip(x, q) == x + (1 - 2 * Bit(x, q)) * Pow2(q)
Compact(st) == [x \in {y \in DOMAIN st : st[y] # CZero} |-> st[x]] @@ EmptyList

ApplyRy(st, q, a) ==
    LET c == RyCos(a)
        s == RySin(a)
        touched == DOMAIN st \cup {Flip(x, q) : x \in DOMAIN st}
    IN  Compact([x \in touched |->
                  LET x0 == x - Bit(x, q) * Pow2(q)
                      x1 == x0 + Pow2(q)
                  IN  IF Bit(x, q) = 0
                      THEN CAdd(CScale(c, Amp(st, x0)), CScale(-s, Amp(st, x1)))
                      ELSE CAdd(CScale(s, Amp(st, x0)), CScale(c, Amp(st, x1)))])

\* CNOT: the target bit is flipped where the control bit is set
CxImage(x, ctl, tgt) == IF Bit(x, ctl) = 1 THEN Flip(x, tgt) ELSE x

ApplyCx(st, ctl, tgt) ==
    Compact([x \in {CxImage(y, ctl, tgt) : y \in DOMAIN st} |-> st[CxImage(x, ctl, tgt)]])

ApplyGate(g, st) ==
    CASE g.op = "ry" -> ApplyRy(st, g.qubits[1], g.params[1])
      [] g.op = "cx" -> ApplyCx(st, g.qubits[1], g.qubits[2])
      [] OTHER -> st

\* the all-zero basis state
ZeroState == 0 :> <<AmpUnit, 0>>

RECURSIVE RunGates(_, _, _)
RunGates(data, j, st) ==
    IF j > Len(data) THEN st ELSE RunGates(data, j + 1, ApplyGate(data[j], st))

\* job = backend.run(qc); result.get_statevector(qc)
get_statevector(angles) ==
    LET qc == build_circuit(angles)
    IN  RunGates(qc.data, 1, ZeroState)

(***************************************************************************)
(* quantum_rerank.fidelity                                                 *)
(***************************************************************************)
RECURSIVE VdotOver(_, _, _)
VdotOver(vec1, vec2, support) ==
    IF support = {} THEN CZero
    ELSE LET x == CHOOSE y \in support : TRUE
         IN  CAdd(CConjMul(vec1[x], vec2[x]), VdotOver(vec1, vec2, support \ {x}))

\* np.vdot conjugates its first argument; only the indices where both
\* amplitudes are nonzero contribute
vdot(vec1, vec2) == VdotOver(vec1, vec2, DOMAIN vec1 \cap DOMAIN vec2)

\* a variant that squares the sum of the real and the imaginary part
\* instead of the modulus
fidelity_sum_of_parts(vec1, vec2) ==
    LET v == vdot(vec1, vec2) IN (v[1] + v[2]) * (v[1] + v[2])

\* np.abs(np.vdot(vec1, vec2)) ** 2
fidelity(vec1, vec2) ==
    LET v == vdot(vec1, vec2) IN v[1] * v[1] + v[2] * v[2]

(***************************************************************************)
(* External collaborators of the pipeline                                  *)
(***************************************************************************)
Vec(t) == [i \in 0 .. (Len(t) - 1) |-> t[i + 1]]

RECURSIVE DotFrom(_, _, _)
DotFrom(a, b, i) == IF i = Size(a) THEN 0 ELSE a[i] * b[i] + DotFrom(a, b, i + 1)
Dot(a, b) == DotFrom(a, b, 0)

\* model.encode([query])[0]: a fixed function of the text (fixed weights).
\* The empty string is embedded like any other text; nothing is rejected.
encode(query) ==
    CASE query = "water" -> Vec(<<1, 0, 0, 0, 0, 0>>)
      [] query = "soil"  -> Vec(<<2, -1, 0, 0, 0, 0>>)
      [] OTHER           -> Vec(<<1, 1, 0, 0, 0, 0>>)

\* emb / np.linalg.norm(emb): the vector v / sqrt(norm2)
l2_normalize(emb) == [v |-> emb, norm2 |-> Dot(emb, emb)]

\* pca_model.transform(query_embedding)[0] = (x - mean_) @ components_.T
pca_transform(model, emb) ==
    LET centred == [i \in DOMAIN emb |-> emb[i] - model.mean[i]]
    IN  [j \in DOMAIN model.components |-> Dot(centred, model.components[j])]

\* index.search(emb, n)[1][0] of a flat inner-product index: n labels, the
\* stored ids by inner product with emb, best first (equal products: lower id
\* first), and -1 in every slot the index has no vector for.  Dividing the
\* query by its norm (> 0) does not change the order of the products.
index_search(idx, emb, n) ==
    LET ntotal == Size(idx)
        ip == [i \in DOMAIN idx |-> Dot(emb.v, idx[i])] @@ EmptyList
        rank == [i \in DOMAIN idx |->
                    Cardinality({j \in DOMAIN idx :
                        ip[j] > ip[i] \/ (ip[j] = ip[i] /\ j < i)})] @@ EmptyList
    IN  [r \in 0 .. (n - 1) |->
            IF r < ntotal THEN CHOOSE i \in DOMAIN idx : rank[i] = r ELSE -1]

\* np.argsort(scores): positions by ascending score.  The default kind is an
\* unstable sort: the order of equal scores is whatever the build's sort
\* leaves, the same on every call.  argsort_kind names that order.
TieKey(kind, i) ==
    CASE kind = "stable"   -> i
      [] kind = "reversed" -> 0 - i
      [] OTHER             -> (7 * i + 3) % 23

argsort(kind, scores) ==
    LET rank == [i \in DOMAIN scores |->
                    Cardinality({j \in DOMAIN scores :
                        scores[j] < scores[i]
                        \/ (scores[j] = scores[i] /\ TieKey(kind, j) < TieKey(kind, i))})]
                @@ EmptyList
    IN  [r \in DOMAIN scores |-> CHOOSE i \in DOMAIN scores : rank[i] = r]

\* a[::-1]
Reversed(a) == [r \in DOMAIN a |-> a[Size(a) - 1 - r]]

\* a[:k] for k >= 0
Prefix(a, k) == [r \in {x \in DOMAIN a : x < k} |-> a[r]]

(***************************************************************************)
(* quantum_rerank.quantum_similarity / quantum_rerank                      *)
(***************************************************************************)
quantum_similarity(query_embedding, pca_model, mins_val, maxs_val, doc_svs) ==
    LET reduced == pca_transform(pca_model, query_embedding)
        conv == reduced_to_angles(reduced, mins_val, maxs_val)
        query_sv == get_statevector(conv.ret)
    IN  [scores |-> [i \in DOMAIN doc_svs |-> fidelity(query_sv, doc_svs[i])] @@ EmptyList,
         mins |-> conv.mins, maxs |-> conv.maxs]

\* a variant without the [::-1]
TopIdx_ascending(kind, scores, top_k) == Prefix(argsort(kind, scores), top_k)

\* np.argsort(scores)[::-1][:top_k]
TopIdx(kind, scores, top_k) == Prefix(Reversed(argsort(kind, scores)), top_k)

quantum_rerank(kind, query, txts, candidate_doc_statevectors, top_k, pca_model, mins_val, maxs_val) ==
    LET emb == encode(query)
        sim == quantum_similarity(emb, pca_model, mins_val, maxs_val,
                                  candidate_doc_statevectors)
        top_idx == TopIdx(kind, sim.scores, top_k) @@ EmptyList
    IN  [status |-> "ok",
         value |-> [r \in DOMAIN top_idx |-> <<txts[top_idx[r]], sim.scores[top_idx[r]]>>],
         scores |-> sim.scores, top_idx |-> top_idx,
         mins |-> sim.mins, maxs |-> sim.maxs]

(***************************************************************************)
(* query_pipeline.get_faiss_top / full_pipeline                            *)
(***************************************************************************)
\* an exception leaves full_pipeline: no list is returned
Raised(kind, at, idx, mns, mxs) ==
    [status |-> kind, at |-> at, value |-> EmptyList, idx |-> idx,
     scores |-> EmptyList, top_idx |-> EmptyList, mins |-> mns, maxs |-> mxs]

\* doc_statevectors[idx[0]]: numpy fancy indexing
get_faiss_top(idx_obj, svs, query) ==
    LET emb == l2_normalize(encode(query))
        idx == index_search(idx_obj, emb, top_n) @@ EmptyList
        n == Size(svs)
    IN  IF \E r \in DOMAIN idx : ~PyIndexOK(n, idx[r])
        THEN [status |-> "IndexError", idx |-> idx, svs |-> EmptyList]
        ELSE [status |-> "ok", idx |-> idx,
              svs |-> [r \in DOMAIN idx |-> svs[PyIndex(n, idx[r])]]]

full_pipeline(query, top_k) ==
    LET top == get_faiss_top(index, doc_statevectors, query)
        n == Size(texts)
    IN  IF top.status # "ok"
        THEN Raised("IndexError", "doc_statevectors", top.idx, mins, maxs)
        ELSE IF \E r \in DOMAIN top.idx : ~PyIndexOK(n, top.idx[r])
        THEN Raised("IndexError", "texts", top.idx, mins, maxs)
        ELSE LET candidate_texts == [r \in DOMAIN top.idx |-> texts[PyIndex(n, top.idx[r])]]
                 res == quantum_rerank(argsort_kind, query, candidate_texts, top.svs,
                                       top_k, pca, mins, maxs)
             IN  [status |-> "ok", at |-> "", value |-> res.value, idx |-> top.idx,
                  scores |-> res.scores, top_idx |-> res.top_idx,
                  mins |-> res.mins, maxs |-> res.maxs]


(***************************************************************************)
(* The loaded artifacts (module state of query_pipeline after import)      *)
(***************************************************************************)
Sparse(entries) == Compact(entries)

\* statevectors a statevector file can hold: unit vectors (for AmpUnit = 5)
\* and one whose norm is above 1
SVPool ==
    Vec(<< Sparse(63 :> <<AmpUnit, 0>>),
           Sparse((63 :> <<3, 0>>) @@ (62 :> <<4, 0>>)),
           Sparse(1 :> <<AmpUnit + 1, 0>>),
           Sparse(62 :> <<AmpUnit, 0>>),
           Sparse((63 :> <<4, 0>>) @@ (1 :> <<0, 3>>)),
           Sparse(0 :> <<0 - AmpUnit, 0>>) >>)

\* embeddings the index can hold
EmbPool ==
    Vec(<< Vec(<<1, 0, 0, 0, 0, 0>>),
           Vec(<<0, 1, 0, 0, 0, 0>>),
           Vec(<<1, 1, 0, 0, 0, 0>>),
           Vec(<<0, 0, 1, 0, 0, 0>>) >>)

\* mins / maxs files: every dimension with a range, or dimension 1 degenerate
RangePool ==
    { [mins |-> Vec(<<1, 1, 1, 1, 1, 1>>), maxs |-> Vec(<<2, 2, 2, 2, 2, 2>>)],
      [mins |-> Vec(<<1, 1, 1, 1, 1, 1>>), maxs |-> Vec(<<2, 1, 2, 2, 2, 2>>)] }

Identity(n) == [j \in 0 .. (n - 1) |-> [i \in 0 .. (n - 1) |-> IF i = j THEN 1 ELSE 0]]

PcaModel ==
    [mean |-> Vec(<<-1, -1, -1, -1, -1, -1>>), components |-> Identity(NumQubits)]

ArgsortKinds == {"stable", "reversed", "scrambled"}

CorpusSizes == (0 .. MaxSmallCorpus) \cup {top_n, top_n + 1}

\* "aligned": index, text table and statevector array hold the same records;
\* otherwise one table lacks the last record the index holds
Shapes == {"aligned", "texts_short", "svs_short"}

Shorter(n) == IF n > 0 THEN n - 1 ELSE 0

LoadCorpus(n, shape) ==
    /\ index = [i \in 0 .. (n - 1) |-> EmbPool[i % Size(EmbPool)]]
    /\ texts = [i \in 0 .. ((IF shape = "texts_short" THEN Shorter(n) ELSE n) - 1)
                  |-> ToString(i)]
    /\ doc_statevectors =
          [i \in 0 .. ((IF shape = "svs_short" THEN Shorter(n) ELSE n) - 1)
              |-> SVPool[i % Size(SVPool)]]

Aligned == Size(texts) = Size(index) /\ Size(doc_statevectors) = Size(index)

NoCall == [query |-> "-", top_k |-> 0]
NoOutcome == Raised("none", "", EmptyList, EmptyList, EmptyList)
NoAngleIn == [z |-> EmptyList, mins |-> EmptyList, maxs |-> EmptyList]
NoAngleOut == [status |-> "none", ret |-> EmptyList, mins |-> EmptyList, maxs |-> EmptyList]

NoCircuit == [num_qubits |-> 0, data |-> <<>>]
NoFidelity == [ab |-> -1, ba |-> -1]
NoRequest == [user |-> 0, session_id |-> [kind |-> "none", id |-> 0], message |-> "", audio |-> "none", image |-> "none"]
NoResponse == [status |-> 0, session_id |-> 0, new_session |-> FALSE]

\* no build_circuit call was made
CircuitIdle == circuit_in = EmptyList /\ circuit_out = NoCircuit

\* no fidelity call was made
FidelityIdle == fidelity_in = [a |-> EmptyList, b |-> EmptyList] /\ fidelity_out = NoFidelity

\* the tables are empty and no request was made
ServerIdle ==
    /\ sessions = <<>> /\ messages = <<>> /\ inserted_by = <<>>
    /\ request = NoRequest /\ response = NoResponse

\* no full_pipeline call was made
PipelineIdle ==
    /\ call = NoCall /\ outcome = NoOutcome
    /\ first_call = NoCall /\ first_outcome = NoOutcome

NothingCalled ==
    /\ PipelineIdle
    /\ angle_in = NoAngleIn /\ angle_out = NoAngleOut
    /\ CircuitIdle /\ FidelityIdle /\ ServerIdle

Init ==
    /\ \E n \in CorpusSizes, shape \in Shapes : LoadCorpus(n, shape)
    /\ pca = PcaModel
    /\ \E r \in RangePool : mins = r.mins /\ maxs = r.maxs
    /\ argsort_kind \in ArgsortKinds
    /\ NothingCalled

(***************************************************************************)
(* Requests                                                                *)
(***************************************************************************)
Queries == {"", "water", "soil"}
TopKs == (1 .. SmallTopK) \cup {top_n, top_n + 1}

\* one call of full_pipeline(query, top_k), start to end
FullPipelineCall ==
    \E query \in Queries, top_k \in TopKs :
        LET out == full_pipeline(query, top_k)
        IN  /\ call' = [query |-> query, top_k |-> top_k]
            /\ outcome' = out
            /\ mins' = out.mins
            /\ maxs' = out.maxs
            /\ UNCHANGED <<index, texts, doc_statevectors, pca, argsort_kind,
                           first_call, first_outcome, angle_in, angle_out>>
            /\ UNCHANGED <<circuit_vars, fidelity_vars, server_vars>>

Next == FullPipelineCall

Spec == Init /\ [][Next]_vars

(***************************************************************************)
(* Repeated requests: the first call since load is remembered              *)
(***************************************************************************)
InitRepeat ==
    /\ \E n \in {0, MaxSmallCorpus, top_n} : LoadCorpus(n, "aligned")
    /\ pca = PcaModel
    /\ \E r \in RangePool : mins = r.mins /\ maxs = r.maxs
    /\ argsort_kind \in ArgsortKinds
    /\ NothingCalled

RepeatTopKs == {SmallTopK, top_n}

FullPipelineRepeat ==
    \E query \in Queries, top_k \in RepeatTopKs :
        LET out == full_pipeline(query, top_k)
            this == [query |-> query, top_k |-> top_k]
        IN  /\ call' = this
            /\ outcome' = out
            /\ first_call' = IF first_call = NoCall THEN this ELSE first_call
            /\ first_outcome' = IF first_call = NoCall THEN out ELSE first_outcome
            /\ mins' = out.mins
            /\ maxs' = out.maxs
            /\ UNCHANGED <<index, texts, doc_statevectors, pca, argsort_kind,
                           angle_in, angle_out>>
            /\ UNCHANGED <<circuit_vars, fidelity_vars, server_vars>>

NextRepeat == FullPipelineRepeat

SpecRepeat == InitRepeat /\ [][NextRepeat]_vars

(***************************************************************************)
(* reduced_to_angles on its own                                            *)
(***************************************************************************)
ZValues == -1 .. 3
MinValues == 0 .. 1
Widths == 0 .. 2
Positions == 0 .. (AngleLen - 1)

AngleInputs ==
    { [z |-> z, mins |-> mns, maxs |-> [i \in Positions |-> mns[i] + width[i]]] :
        z \in [Positions -> ZValues], mns \in [Positions -> MinValues],
        width \in [Positions -> Widths] }

\* the arguments of one call reduced_to_angles(z, mins, maxs), mins[i] <= maxs[i]
InitAngles ==
    /\ LoadCorpus(0, "aligned")
    /\ pca = PcaModel
    /\ mins = Vec(<<1, 1, 1, 1, 1, 1>>) /\ maxs = Vec(<<2, 2, 2, 2, 2, 2>>)
    /\ argsort_kind = "stable"
    /\ PipelineIdle
    /\ angle_in \in AngleInputs
    /\ angle_out = NoAngleOut
    /\ CircuitIdle /\ FidelityIdle /\ ServerIdle

ReducedToAnglesCall ==
    /\ angle_out = NoAngleOut
    /\ angle_out' = reduced_to_angles(angle_in.z, angle_in.mins, angle_in.maxs)
    /\ UNCHANGED <<corpus_vars, call, outcome, first_call, first_outcome, angle_in>>
    /\ UNCHANGED <<circuit_vars, fidelity_vars, server_vars>>

NextAngles == ReducedToAnglesCall

SpecAngles == InitAngles /\ [][NextAngles]_vars

(***************************************************************************)
(* build_circuit on its own                                                *)
(***************************************************************************)
\* the angles 0, pi, -pi/2 and 3*pi/4
AngleValues ==
    { [num |-> 0, den |-> 1, exp |-> 0], [num |-> 1, den |-> 1, exp |-> 0],
      [num |-> -1, den |-> 2, exp |-> 0], [num |-> 3, den |-> 4, exp |-> 0] }

\* the loaded module with nothing called, as the single-function runs start
LoadedIdle ==
    /\ LoadCorpus(0, "aligned")
    /\ pca = PcaModel
    /\ mins = Vec(<<1, 1, 1, 1, 1, 1>>) /\ maxs = Vec(<<2, 2, 2, 2, 2, 2>>)
    /\ argsort_kind = "stable"
    /\ PipelineIdle
    /\ angle_in = NoAngleIn /\ angle_out = NoAngleOut

\* the argument of one call build_circuit(angles), one angle per qubit
InitCircuit ==
    /\ LoadedIdle
    /\ circuit_in \in [0 .. (NumQubits - 1) -> AngleValues]
    /\ circuit_out = NoCircuit
    /\ FidelityIdle /\ ServerIdle

BuildCircuitCall ==
    /\ circuit_out = NoCircuit
    /\ circuit_out' = build_circuit(circuit_in)
    /\ UNCHANGED <<corpus_vars, call, outcome, first_call, first_outcome,
                   angle_in, angle_out, circuit_in, fidelity_vars, server_vars>>

NextCircuit == BuildCircuitCall

SpecCircuit == InitCircuit /\ [][NextCircuit]_vars

(***************************************************************************)
(* fidelity on its own                                                     *)
(***************************************************************************)
\* amplitudes 0, 3/5, 4i/5 and (4 - 3i)/5
AmpValues == {CZero, <<3, 0>>, <<0, 4>>, <<4, -3>>}

\* the basis states the vectors of the pool may occupy
PoolSupport == {0, 1, Pow2(NumQubits) - 1}

\* vectors of length 2^6, unit norm or not
VectorPool == {Compact(v) : v \in [PoolSupport -> AmpValues]}

\* the arguments of the calls fidelity(a, b) and fidelity(b, a)
InitFidelity ==
    /\ LoadedIdle
    /\ CircuitIdle
    /\ \E a \in VectorPool, b \in VectorPool : fidelity_in = [a |-> a, b |-> b]
    /\ fidelity_out = NoFidelity
    /\ ServerIdle

FidelityCalls ==
    /\ fidelity_out = NoFidelity
    /\ fidelity_out' = [ab |-> fidelity(fidelity_in.a, fidelity_in.b),
                        ba |-> fidelity(fidelity_in.b, fidelity_in.a)]
    /\ UNCHANGED <<corpus_vars, call, outcome, first_call, first_outcome,
                   angle_in, angle_out, circuit_vars, fidelity_in, server_vars>>

NextFidelity == FidelityCalls

SpecFidelity == InitFidelity /\ [][NextFidelity]_vars

(***************************************************************************)
(* server.add_message (POST /message/add)                                  *)
(*                                                                         *)
(* The route runs start to end on the event loop: every Supabase call in   *)
(* it is a blocking call.  The tables are reached and answer; a session id *)
(* the database generates is modelled as the next row number.  The bot     *)
(* reply text is abstracted to "reply"; whether the language model answers *)
(* or the fallback text is used changes no table row's session.            *)
(***************************************************************************)
\* the users get_current_user finds for a valid token
Users == 1 .. NumUsers

\* the form field session_id: absent, a string that is no UUID, or the UUID
\* of row id (rows MaxSessions + 1 and above never exist)
SessionIdFields ==
    {[kind |-> "none", id |-> 0], [kind |-> "malformed", id |-> 0]}
        \cup {[kind |-> "uuid", id |-> k] : k \in 1 .. (MaxSessions + 1)}

MessageFields == {"", "hello"}

\* the upload audio: absent, transcribed to text, or transcription fails
AudioFields == {"none", "speech", "failed"}

\* the upload image: absent, analysed, or analysis fails
ImageFields == {"none", "plant", "failed"}

\* raise HTTPException(status_code=...), or an exception nothing catches
\* (status 500): the tables stay as they are
Fails(status) ==
    [status |-> status, sessions |-> sessions, messages |-> messages,
     inserted_by |-> inserted_by, session_id |-> 0, new_session |-> FALSE]

\* message = transcribe_audio_whisper(audio_bytes)
Transcribed(message, audio) == IF audio = "none" THEN message ELSE "spoken"

\* message = f"[Image uploaded] {message}" / message = "[Image uploaded]"
WithImage(message, image) ==
    CASE image = "none" -> message
      [] message = "" -> "[Image uploaded]"
      [] OTHER -> "[Image uploaded] " \o message

\* the two inserts into messages (user row, bot row) and the return value
SaveMessages(user, sess, sid, new_session_created, message) ==
    [status |-> 200, sessions |-> sess,
     messages |-> messages \o
         << [session_id |-> sid, sender |-> "user", message |-> message],
            [session_id |-> sid, sender |-> "bot", message |-> "reply"] >>,
     inserted_by |-> inserted_by \o <<user, user>>,
     session_id |-> sid, new_session |-> new_session_created]

\* session handling and what follows it, for a call that carries a message
HandleSession(user, session_id, message) ==
    CASE session_id.kind = "malformed" -> Fails(500)
      [] session_id.kind = "none" ->
            SaveMessages(user, Append(sessions, [user_id |-> user]),
                         Len(sessions) + 1, TRUE, message)
      [] OTHER ->
            IF \/ session_id.id \notin DOMAIN sessions
               \/ sessions[session_id.id].user_id # user
            THEN Fails(403)
            ELSE SaveMessages(user, sessions, session_id.id, FALSE, message)

add_message(user, session_id, message, audio, image) ==
    IF audio = "failed" \/ image = "failed" THEN Fails(500)
    ELSE LET text == WithImage(Transcribed(message, audio), image)
         IN  IF text = "" THEN Fails(400)
             ELSE HandleSession(user, session_id, text)

InitServer ==
    /\ LoadedIdle
    /\ CircuitIdle /\ FidelityIdle /\ ServerIdle

\* one request POST /message/add by an authenticated user, start to end
AddMessageCall ==
    \E user \in Users, session_id \in SessionIdFields, message \in MessageFields,
       audio \in AudioFields, image \in ImageFields :
        LET out == add_message(user, session_id, message, audio, image)
        IN  /\ Len(out.sessions) <= MaxSessions
            /\ Len(out.messages) <= MaxMessages
            /\ sessions' = out.sessions
            /\ messages' = out.messages
            /\ inserted_by' = out.inserted_by
            /\ request' = [user |-> user, session_id |-> session_id,
                           message |-> message, audio |-> audio, image |-> image]
            /\ response' = [status |-> out.status, session_id |-> out.session_id,
                            new_session |-> out.new_session]
            /\ UNCHANGED <<corpus_vars, call, outcome, first_call, first_outcome,
                           angle_in, angle_out, circuit_vars, fidelity_vars>>

NextServer == AddMessageCall

SpecServer == InitServer /\ [][NextServer]_vars

(***************************************************************************)
(* Properties                                                              *)
(***************************************************************************)
Returned == call # NoCall /\ outcome.status = "ok"

Min(a, b) == IF a < b THEN a ELSE b

\* the text the shortlist holds at position p
CandidateText(p) == texts[PyIndex(Size(texts), outcome.idx[p])]

\* C1: a returned list has at most top_k entries, its scores never increase
\* down the list, and every entry is (texts[i], scores[i]) of a shortlist
\* position i that no other entry uses.
C1_RerankContract ==
    Returned =>
        LET v == outcome.value
            t == outcome.top_idx
        IN  /\ Size(v) <= call.top_k
            /\ \A r \in DOMAIN v, q \in DOMAIN v : r < q => v[r][2] >= v[q][2]
            /\ DOMAIN t = DOMAIN v
            /\ \A r \in DOMAIN v :
                  /\ t[r] \in 0 .. (top_n - 1)
                  /\ v[r] = <<CandidateText(t[r]), outcome.scores[t[r]]>>
            /\ \A r \in DOMAIN v, q \in DOMAIN v : r # q => t[r] # t[q]

\* a call that cut a longer shortlist to two entries with different scores
C1_Witness ==
    /\ Returned
    /\ call.top_k = SmallTopK
    /\ Size(outcome.value) = SmallTopK
    /\ outcome.value[0][2] > outcome.value[SmallTopK - 1][2]
    /\ \E p \in DOMAIN outcome.scores : outcome.scores[p] < outcome.value[SmallTopK - 1][2]

\* every slot of the shortlist holds an id of the index
FullShortlist == \A p \in DOMAIN outcome.idx : outcome.idx[p] >= 0

\* C2: among equal scores the earlier ANN rank comes first in the result, and
\* a cut inside a group of equal scores keeps the earlier ANN ranks (stated
\* for shortlists of top_n different records of a consistent corpus).
C2_TiesByAnnRank ==
    (Returned /\ Aligned /\ FullShortlist) =>
        LET t == outcome.top_idx
            sc == outcome.scores
            kept == {t[r] : r \in DOMAIN t}
        IN  /\ \A r \in DOMAIN t, q \in DOMAIN t :
                  (r < q /\ sc[t[r]] = sc[t[q]]) => t[r] < t[q]
            /\ \A p \in kept, d \in DOMAIN sc \ kept : sc[p] = sc[d] => p < d

\* C3: with a consistent corpus of c >= 1 records the call returns exactly
\* min(top_k, top_n, c) entries, each a different record that the ANN search
\* returned.
C3_ReturnsAllAvailable ==
    (call # NoCall /\ Aligned /\ Size(index) >= 1) =>
        /\ outcome.status = "ok"
        /\ Size(outcome.value) = Min(call.top_k, Min(top_n, Size(index)))
        /\ \A r \in DOMAIN outcome.top_idx : outcome.idx[outcome.top_idx[r]] >= 0
        /\ \A r \in DOMAIN outcome.top_idx, q \in DOMAIN outcome.top_idx :
              r # q => outcome.idx[outcome.top_idx[r]] # outcome.idx[outcome.top_idx[q]]

\* C4: with an empty corpus every call returns the empty list and raises
\* nothing.
C4_EmptyCorpusEmptyList ==
    (call # NoCall /\ Size(index) = 0 /\ Size(texts) = 0 /\ Size(doc_statevectors) = 0) =>
        (outcome.status = "ok" /\ outcome.value = EmptyList)

\* an id the ANN search returned for which the corpus has no text or no
\* statevector
FailsLookup(id) == id >= 0 /\ (id >= Size(texts) \/ id >= Size(doc_statevectors))

\* C5: when an id the ANN search returned fails the corpus lookup the call
\* still returns, and no entry of the result comes from that id.
C5_BadIdSkipped ==
    (call # NoCall /\ \E p \in DOMAIN outcome.idx : FailsLookup(outcome.idx[p])) =>
        /\ outcome.status = "ok"
        /\ \A r \in DOMAIN outcome.top_idx : ~FailsLookup(outcome.idx[outcome.top_idx[r]])

AngleCalled == angle_out # NoAngleOut

\* C6: every angle reduced_to_angles returns lies in [0, pi] (stated for the
\* dimensions with mins[i] < maxs[i]).
C6_AnglesInRange ==
    AngleCalled =>
        \A i \in DOMAIN angle_out.ret :
            angle_in.mins[i] < angle_in.maxs[i] => AngleInRange(angle_out.ret[i])

\* C7: a dimension with maxs[i] = mins[i] raises nothing and gets angle 0,
\* whatever z[i] is.
C7_DegenerateIsZero ==
    AngleCalled =>
        /\ angle_out.status = "ok"
        /\ \A i \in DOMAIN angle_out.ret :
              angle_in.maxs[i] = angle_in.mins[i] => AngleIsZero(angle_out.ret[i])

\* C8: every score of a returned list lies in [0, 1].
C8_ScoresInUnitInterval ==
    Returned =>
        \A r \in DOMAIN outcome.value :
            0 <= outcome.value[r][2] /\ outcome.value[r][2] <= One

C10_EmptyQueryRejected ==
    (call # NoCall /\ call.query = "" /\ Aligned /\ Size(index) >= top_n) =>
        (outcome.status = "ValidationError" /\ outcome.value = EmptyList)

CircuitBuilt == circuit_out # NoCircuit

\* the gates of a circuit, in order: every instruction but the state save
GatesOf(qc) == SelectSeq(qc.data, LAMBDA g : g.op # "save_statevector")

\* C11: the circuit built from six angles has exactly 6 qubits, and its gates
\* are, in this order, one ry on qubit i with parameter angles[i] for
\* i = 0..5 and then cx on (0,1), (1,2), (2,3), (3,4), (4,5), nothing else.
C11_CanonicalGates ==
    CircuitBuilt =>
        LET g == GatesOf(circuit_out)
        IN  /\ circuit_out.num_qubits = 6
            /\ Len(g) = 6 + 5
            /\ \A i \in 0 .. 5 :
                  g[i + 1] = [op |-> "ry", qubits |-> <<i>>, params |-> <<circuit_in[i]>>]
            /\ \A i \in 0 .. 4 :
                  g[6 + i + 1] = [op |-> "cx", qubits |-> <<i, i + 1>>, params |-> <<>>]

\* a circuit built from six angles that are not all the same
C11_Witness ==
    /\ CircuitBuilt
    /\ Size(circuit_in) = 6
    /\ circuit_in[0] # circuit_in[5] /\ circuit_in[1] # circuit_in[2]
    /\ Len(circuit_out.data) = 12

\* C12: reduced_to_angles(mins, mins, maxs) is 0 in every component and
\* reduced_to_angles(maxs, mins, maxs) is pi in every component.
C12_BoundaryAngles ==
    AngleCalled =>
        /\ angle_in.z = angle_in.mins =>
              \A i \in DOMAIN angle_out.ret : AngleIsZero(angle_out.ret[i])
        /\ angle_in.z = angle_in.maxs =>
              \A i \in DOMAIN angle_out.ret : AngleIsPi(angle_out.ret[i])

\* C12, amended: reduced_to_angles(mins, mins, maxs) is 0 in every component;
\* reduced_to_angles(maxs, mins, maxs) is pi in every component with
\* mins[i] < maxs[i] and 0 in every component with maxs[i] = mins[i].
C12_BoundaryAnglesByRange ==
    AngleCalled =>
        /\ angle_out.status = "ok"
        /\ DOMAIN angle_out.ret = DOMAIN angle_in.z
        /\ angle_in.z = angle_in.mins =>
              \A i \in DOMAIN angle_out.ret : AngleIsZero(angle_out.ret[i])
        /\ angle_in.z = angle_in.maxs =>
              \A i \in DOMAIN angle_out.ret :
                  IF angle_in.mins[i] < angle_in.maxs[i]
                  THEN AngleIsPi(angle_out.ret[i])
                  ELSE AngleIsZero(angle_out.ret[i])

\* a call with z = maxs where one dimension has maxs = mins and another has
\* mins < maxs
C12_Witness ==
    /\ AngleCalled
    /\ angle_in.z = angle_in.maxs
    /\ \E i \in DOMAIN angle_in.z : angle_in.maxs[i] = angle_in.mins[i]
    /\ \E i \in DOMAIN angle_in.z :
          angle_in.mins[i] < angle_in.maxs[i] /\ angle_in.mins[i] # 0

FidelityCalled == fidelity_out # NoFidelity

\* C13: fidelity(a, b) = fidelity(b, a) for every pair of statevectors of
\* the same length.
C13_FidelitySymmetric ==
    FidelityCalled => fidelity_out.ab = fidelity_out.ba

\* two different vectors whose inner product has a real and an imaginary
\* part, so that vdot(a, b) and vdot(b, a) differ
C13_Witness ==
    /\ FidelityCalled
    /\ fidelity_in.a # fidelity_in.b
    /\ vdot(fidelity_in.a, fidelity_in.b)[1] # 0
    /\ vdot(fidelity_in.a, fidelity_in.b)[2] # 0
    /\ vdot(fidelity_in.a, fidelity_in.b) # vdot(fidelity_in.b, fidelity_in.a)
    /\ fidelity_out.ab > 0

\* the shared corpus-side objects: ANN index, reduction model, mins, maxs,
\* corpus statevectors, text table
shared_state == <<index, pca, mins, maxs, doc_statevectors, texts>>

PlainTextRequest(req) == req.message # "" /\ req.audio = "none" /\ req.image = "none"

\* the session_id of the request is given and is not the id of a session of
\* the caller in table sess: it belongs to another user, or to no row
NamesNoOwnSession(req, sess) ==
    /\ req.session_id.kind # "none"
    /\ \/ req.session_id.kind = "malformed"
       \/ req.session_id.id \notin DOMAIN sess
       \/ sess[req.session_id.id].user_id # req.user

\* every row of table msgs belongs to a session of table sess whose user_id
\* is the user in by
RowsOwnedByInserter(msgs, sess, by) ==
    \A r \in DOMAIN msgs :
        /\ msgs[r].session_id \in DOMAIN sess
        /\ sess[msgs[r].session_id].user_id = by[r]

\* C15: after every add_message call each row of messages belongs to a
\* session of the user whose call inserted it; a call naming a session of
\* another user or a session id that does not exist ends with status 403 and
\* inserts no row into messages or sessions; a call without session_id creates
\* a session owned by the caller and inserts its messages there (the last two
\* stated for calls that carry a text message and no upload).
C15_SessionOwnership ==
    [][ /\ RowsOwnedByInserter(messages', sessions', inserted_by')
        /\ (PlainTextRequest(request') /\ NamesNoOwnSession(request', sessions)) =>
              /\ response'.status = 403
              /\ messages' = messages
              /\ sessions' = sessions
        /\ (PlainTextRequest(request') /\ request'.session_id.kind = "none") =>
              /\ response'.status = 200 /\ response'.new_session
              /\ sessions' = Append(sessions, [user_id |-> request'.user])
              /\ Len(messages') = Len(messages) + 2
              /\ \A r \in (DOMAIN messages') \ (DOMAIN messages) :
                    messages'[r].session_id = Len(sessions')
      ]_vars

=============================================================================
